---- MODULE Spec2Model ----
(***************************************************************************)
(* Model of the two numeric kernels of batchelor:                          *)
(*   smooth_gaussian_kernel (src/src/mnn_correction.cpp and                *)
(*                           src/src/smooth_gaussian_kernel.cpp)           *)
(*   adjust_shift_variance  (src/src/mnn_correction.cpp)                   *)
(*                                                                         *)
(* A C++ double is modelled as an exact extended rational <<n, d>>:        *)
(*   d > 0  : the finite value n/d in lowest terms                         *)
(*   <<1,0>>, <<-1,0>> : +Inf, -Inf                                        *)
(*   <<0,0>> : NaN (R's NA_REAL is a NaN)                                  *)
(* Rounding of finite results is not modelled; the finite range of exp()   *)
(* is (ExpOf underflows to 0).                                             *)
(*                                                                         *)
(* A double that holds a log-probability (distances2 after the division by *)
(* -s2, density) is represented by its exponential, so that log-space      *)
(* addition, subtraction and exp() stay inside the rationals.              *)
(***************************************************************************)
EXTENDS Integers, Sequences, FiniteSets, TLC

(***************************************************************************)
(* Bounds of the model.                                                    *)
(***************************************************************************)
MaxPairs == 3      \* rows of the correction-vector matrix
MaxCells == 3      \* columns of the expression matrix that is smoothed
MaxRef == 2        \* cells of the reference batch
MaxQuery == 2      \* cells of the query batch
KernelBase == 2    \* exp(1/s2): the bandwidths with an integer kernel base
MinExp == 3        \* exp(x) underflows to 0 below KernelBase^(-MinExp)

\* values the arguments are drawn from
RowValue(r) == r * r                          \* the entry of row r of the correction vectors
Positions == {0, 1, 2}                        \* expression values, one gene
Points == {<<0, 0>>, <<1, 0>>, <<1, 2>>}      \* expression values, two genes
Grads == {<<0, 0>>, <<2, 0>>, <<0, -1>>}      \* gradient rows (integer l2 norm)

(***************************************************************************)
(* Doubles.                                                                *)
(***************************************************************************)
NaN == <<0, 0>>
Zero == <<0, 1>>
One == <<1, 1>>

Abs(i) == IF i < 0 THEN -i ELSE i
Sgn(i) == IF i < 0 THEN -1 ELSE IF i > 0 THEN 1 ELSE 0

RECURSIVE Gcd(_, _)
Gcd(a, b) == IF b = 0 THEN a ELSE Gcd(b, a % b)

\* the double n/d
Norm(n, d) ==
    IF d = 0 THEN <<Sgn(n), 0>>
    ELSE LET g == Gcd(Abs(n), Abs(d))
             s == IF d < 0 THEN -1 ELSE 1
         IN <<(s * n) \div g, (s * d) \div g>>

R(i) == <<i, 1>>
IsNaN(x) == x[1] = 0 /\ x[2] = 0
IsFinite(x) == x[2] # 0

\* x + y
Add(x, y) ==
    IF x[2] # 0 /\ y[2] # 0
    THEN LET g == Gcd(x[2], y[2])
         IN Norm(x[1] * (y[2] \div g) + y[1] * (x[2] \div g), (x[2] \div g) * y[2])
    ELSE IF IsNaN(x) \/ IsNaN(y) THEN NaN
    ELSE IF x[2] # 0 THEN y
    ELSE IF y[2] # 0 THEN x
    ELSE IF x[1] = y[1] THEN x ELSE NaN

Neg(x) == <<-x[1], x[2]>>
Sub(x, y) == Add(x, Neg(y))

\* x * y
Mul(x, y) ==
    IF x[2] # 0 /\ y[2] # 0
    THEN LET a == Norm(x[1], y[2])
             b == Norm(y[1], x[2])
         IN Norm(a[1] * b[1], a[2] * b[2])
    ELSE <<Sgn(x[1]) * Sgn(y[1]), 0>>

\* x / y
Div(x, y) ==
    IF x[2] # 0 /\ y[2] # 0
    THEN LET a == Norm(x[1], y[1])
             b == Norm(y[2], x[2])
         IN Norm(a[1] * b[1], a[2] * b[2])
    ELSE IF x[2] = 0 /\ y[2] = 0 THEN NaN
    ELSE IF x[2] = 0 THEN <<x[1] * (IF y[1] < 0 THEN -1 ELSE 1), 0>>
    ELSE IF IsNaN(y) THEN NaN ELSE Zero

\* x < y, x <= y, x >= y: false when either side is NaN
Lt(x, y) ==
    /\ ~IsNaN(x) /\ ~IsNaN(y)
    /\ IF x[2] # 0 /\ y[2] # 0 THEN x[1] * y[2] < y[1] * x[2]
       ELSE IF x[2] = 0 /\ y[2] = 0 THEN x[1] < y[1]
       ELSE IF x[2] = 0 THEN x[1] < 0 ELSE y[1] > 0
Leq(x, y) == ~IsNaN(x) /\ ~IsNaN(y) /\ ~Lt(y, x)
Geq(x, y) == Leq(y, x)

\* std::max(a, b) == (a < b) ? b : a
MaxD(a, b) == IF Lt(a, b) THEN b ELSE a

RECURSIVE Pow(_, _)
Pow(b, e) == IF e = 0 THEN 1 ELSE b * Pow(b, e - 1)

VARIABLES
    fn,         \* the entry point called
    impl,       \* the translation unit smooth_gaussian_kernel is taken from
    pc,         \* position in the call
    vect,       \* correction vectors / gradients: [ncol, rows]
    index,      \* anchor identifier of each row of vect, 0-based
    data,       \* expression matrix: [nrow, cols]
    data1, data2,                \* reference and query expression matrices
    averages, number, mnncell,   \* the average vector of each MNN cell
    row,        \* next row of vect to aggregate
    todo,       \* anchors the outer loop has not reached yet
    distances2, \* the per-anchor distance buffer
    output, totalprob,           \* the result and the total probability
    cell,       \* next query cell of adjust_shift_variance
    loc         \* the locals of the last iteration over the query cells

vars == <<fn, impl, pc, vect, index, data, data1, data2, averages, number, mnncell,
          row, todo, distances2, output, totalprob, cell, loc>>

V1 == "mnn_correction.cpp"
V2 == "smooth_gaussian_kernel.cpp"

(***************************************************************************)
(* Sequences.                                                              *)
(***************************************************************************)
RECURSIVE SeqsUpTo(_, _)
SeqsUpTo(S, n) == IF n = 0 THEN {<<>>} ELSE SeqsUpTo(S, n - 1) \cup [1..n -> S]

Fill(n, x) == [k \in 1..n |-> x]

\* the std::set<int> iteration order: ascending
RECURSIVE SortedSeq(_)
SortedSeq(S) ==
    IF S = {} THEN <<>>
    ELSE LET m == CHOOSE x \in S : \A y \in S : x <= y
         IN <<m>> \o SortedSeq(S \ {m})

Perms(S) == {p \in [1..Cardinality(S) -> S] : \A i, j \in 1..Cardinality(S) : p[i] = p[j] => i = j}

(***************************************************************************)
(* smooth_gaussian_kernel: the dimension check.                            *)
(***************************************************************************)
npairs == Len(vect.rows)
ngenes == vect.ncol
ncells == Len(data.cols)

IndexMismatch == npairs # Len(index)

(***************************************************************************)
(* smooth_gaussian_kernel: the average vector of each MNN cell.            *)
(* averages[i + 1] is the C++ averages[i]; a default-constructed           *)
(* Rcpp::NumericVector has length 0.                                       *)
(***************************************************************************)
\* std::deque::resize(n) on grow: default-constructed new elements
Resize(q, n, x) == IF Len(q) >= n THEN q ELSE q \o Fill(n - Len(q), x)

\* for (auto& t : target) { t += *cIt; ++cIt; }
AddInto(target, currow) == [g \in 1..Len(target) |-> Add(target[g], currow[g])]

EmptyAgg1 == [averages |-> <<>>, number |-> <<>>, mnncell |-> {}]
EmptyAgg2 == [averages |-> Fill(ncells, <<>>), number |-> Fill(ncells, 0), mnncell |-> {}]

\* faulty variant: a row of an identifier already seen replaces the sum instead of adding to it
AggregateRow1_Overwrite(a, i, currow) ==
    LET av == Resize(a.averages, i + 1, <<>>)
        nu == Resize(a.number, i + 1, 0)
    IN [averages |-> [av EXCEPT ![i + 1] = currow],
        number |-> [nu EXCEPT ![i + 1] = @ + 1],
        mnncell |-> a.mnncell \cup {i}]

\* mnn_correction.cpp, one iteration of the loop over _index
AggregateRow1(a, i, currow) ==
    IF i >= Len(a.averages) \/ Len(a.averages[i + 1]) = 0
    THEN LET av == Resize(a.averages, i + 1, <<>>)
             nu == Resize(a.number, i + 1, 0)
         IN [averages |-> [av EXCEPT ![i + 1] = currow],
             number |-> [nu EXCEPT ![i + 1] = 1],
             mnncell |-> a.mnncell \cup {i}]
    ELSE [averages |-> [a.averages EXCEPT ![i + 1] = AddInto(@, currow)],
          number |-> [a.number EXCEPT ![i + 1] = @ + 1],
          mnncell |-> a.mnncell]

\* smooth_gaussian_kernel.cpp, one iteration of the loop over the rows
AggregateRow2(a, pair_dex, currow) ==
    IF pair_dex \in a.mnncell
    THEN [averages |-> [a.averages EXCEPT ![pair_dex + 1] = AddInto(@, currow)],
          number |-> [a.number EXCEPT ![pair_dex + 1] = @ + 1],
          mnncell |-> a.mnncell]
    ELSE [averages |-> [a.averages EXCEPT ![pair_dex + 1] = currow],
          number |-> [a.number EXCEPT ![pair_dex + 1] = @ + 1],
          mnncell |-> a.mnncell \cup {pair_dex}]

AggregateRow(im, a, i, currow) ==
    IF im = V1 THEN AggregateRow1(a, i, currow) ELSE AggregateRow2(a, i, currow)

\* for (auto& t : target) { t /= num; }
DivideBy(target, num) == [g \in 1..Len(target) |-> Div(target[g], R(num))]

\* the loop over mnncell that turns the sums into means
DivideAll(a) ==
    [a EXCEPT !.averages =
        [k \in 1..Len(a.averages) |->
            IF (k - 1) \in a.mnncell THEN DivideBy(a.averages[k], a.number[k])
            ELSE a.averages[k]]]

(***************************************************************************)
(* smooth_gaussian_kernel: smoothing.                                      *)
(***************************************************************************)
\* for (g...) { tmp = *iIt_copy - *other_iIt; curdist2 += tmp*tmp; }
RECURSIVE SqDistFrom(_, _, _, _)
SqDistFrom(curdist2, x, y, g) ==
    IF g > Len(x) THEN curdist2
    ELSE LET tmp == Sub(x[g], y[g])
         IN SqDistFrom(Add(curdist2, Mul(tmp, tmp)), x, y, g + 1)

\* double& curdist2 = (distances2[other] = 0): the buffer entry is reset first
SqDist(old, x, y) == SqDistFrom(Zero, x, y, 1)

\* d2 / -s2 as a log-probability (held as its exponential: exp(-d2/s2))
LogKernel(d2) ==
    IF IsNaN(d2) THEN NaN
    ELSE IF ~IsFinite(d2) THEN (IF d2[1] > 0 THEN Zero ELSE <<1, 0>>)
    ELSE Norm(1, Pow(KernelBase, CHOOSE k \in 0..d2[1] : R(k) = d2))

\* std::exp(x - y) of two log-probabilities, with the underflow of exp
ExpOf(x, y) ==
    LET r == Div(x, y)
    IN IF IsFinite(r) /\ Lt(r, Norm(1, Pow(KernelBase, MinExp))) THEN Zero ELSE r

\* mnn_correction.cpp: all squared distances first, then d2 /= -s2 in a second pass
Distances1(old, mnn) ==
    LET curdist2 == [other \in 1..ncells |->
                        SqDist(old[other], data.cols[mnn + 1], data.cols[other])]
    IN [other \in 1..ncells |-> LogKernel(curdist2[other])]

\* smooth_gaussian_kernel.cpp: curdist2 /= -s2 inside the loop over the cells
Distances2(old, mnn) ==
    [other \in 1..ncells |->
        LogKernel(SqDist(old[other], data.cols[mnn + 1], data.cols[other]))]

\* faulty variant: the log1pexp term is dropped
LogAdd1_NoLog1p(density, to_add) == MaxD(to_add, density)

\* larger + log1pexp(-diff), larger = max(to_add, density), diff = |to_add - density|
LogAdd1(density, to_add) ==
    LET larger == MaxD(to_add, density)
        smaller == IF Lt(to_add, density) THEN to_add ELSE density
    IN Mul(larger, Add(One, Div(smaller, larger)))

\* R::logspace_add(density, x)
LogAdd2(density, x) == Add(density, x)

\* mnn_correction.cpp: density starts as NA_REAL and ISNA(density) picks the first term
RECURSIVE Density1(_, _, _)
Density1(density, others, d2s) ==
    IF others = <<>> THEN density
    ELSE LET d == d2s[Head(others) + 1]
         IN Density1(IF IsNaN(density) THEN d ELSE LogAdd1(density, d), Tail(others), d2s)

\* smooth_gaussian_kernel.cpp: density starts as 0 with the flag 'starting' set
RECURSIVE Density2(_, _, _, _)
Density2(density, starting, others, d2s) ==
    IF others = <<>> THEN density
    ELSE LET d == d2s[Head(others) + 1]
         IN Density2(IF starting THEN d ELSE LogAdd2(density, d), FALSE, Tail(others), d2s)

\* density holds a log-probability: NA_REAL is NaN, the log-probability 0 is One
Density(im, cells, d2s) ==
    IF im = V1 THEN Density1(NaN, SortedSeq(cells), d2s)
    ELSE Density2(One, TRUE, SortedSeq(cells), d2s)

\* faulty variant: each anchor overwrites the accumulators instead of adding to them
Accumulate_Overwrite(acc, correction, mult) ==
    [output |-> [other \in 1..Len(acc.output) |->
                    [g \in 1..Len(acc.output[other]) |-> Mul(correction[g], mult[other])]],
     totalprob |-> [other \in 1..Len(acc.totalprob) |-> mult[other]]]

\* totalprob[other] += mult; (*oIt) += corval * mult
Accumulate(acc, correction, mult) ==
    [output |-> [other \in 1..Len(acc.output) |->
                    [g \in 1..Len(acc.output[other]) |->
                        Add(acc.output[other][g], Mul(correction[g], mult[other]))]],
     totalprob |-> [other \in 1..Len(acc.totalprob) |->
                    Add(acc.totalprob[other], mult[other])]]

\* one iteration of the loop over mnncell
AnchorStep(im, avg, cells, acc, mnn) ==
    LET d2s == IF im = V1 THEN Distances1(acc.distances2, mnn)
               ELSE Distances2(acc.distances2, mnn)
        density == Density(im, cells, d2s)
        mult == [other \in 1..ncells |-> ExpOf(d2s[other], density)]
        sum == Accumulate(acc, avg[mnn + 1], mult)
    IN [output |-> sum.output, totalprob |-> sum.totalprob, distances2 |-> d2s]

\* Rcpp::NumericMatrix output(ngenes, ncells); std::vector<double> distances2(ncells), totalprob(ncells)
EmptyAcc ==
    [output |-> Fill(ncells, Fill(ngenes, Zero)),
     totalprob |-> Fill(ncells, Zero),
     distances2 |-> Fill(ncells, Zero)]

\* faulty variant: the division by the total probability is left out
Normalize_NoDivide(acc) == acc.output

\* faulty variant: a zero total probability leaves the column as accumulated
Normalize_ZeroGuard(acc) ==
    [other \in 1..Len(acc.output) |->
        [g \in 1..Len(acc.output[other]) |->
            IF acc.totalprob[other] = Zero THEN acc.output[other][g]
            ELSE Div(acc.output[other][g], acc.totalprob[other])]]

\* for (auto& val : curcol) { val /= total; }
Normalize(acc) ==
    [other \in 1..Len(acc.output) |->
        [g \in 1..Len(acc.output[other]) |-> Div(acc.output[other][g], acc.totalprob[other])]]

(***************************************************************************)
(* smooth_gaussian_kernel as a function of its arguments.                  *)
(***************************************************************************)
RECURSIVE AggregateFrom(_, _, _)
AggregateFrom(im, a, r) ==
    IF r > npairs THEN a
    ELSE AggregateFrom(im, AggregateRow(im, a, index[r], vect.rows[r]), r + 1)

Averages(im) == DivideAll(AggregateFrom(im, IF im = V1 THEN EmptyAgg1 ELSE EmptyAgg2, 1))

RECURSIVE SmoothFrom(_, _, _, _, _)
SmoothFrom(im, avg, cells, acc, order) ==
    IF order = <<>> THEN acc
    ELSE SmoothFrom(im, avg, cells, AnchorStep(im, avg, cells, acc, Head(order)), Tail(order))

Smooth(im) ==
    LET a == Averages(im)
    IN Normalize(SmoothFrom(im, a.averages, a.mnncell, EmptyAcc, SortedSeq(a.mnncell)))

(***************************************************************************)
(* adjust_shift_variance.                                                  *)
(***************************************************************************)
ncells1 == Len(data1.cols)
ncells2 == Len(data2.cols)

\* faulty variant: the gradient matrix's vector length is not compared
GeneMismatch_NoGradient == data1.nrow # data2.nrow

\* ngenes != d2->get_nrow() || ngenes != v->get_ncol()
GeneMismatch == data1.nrow # data2.nrow \/ data1.nrow # vect.ncol

\* ncells2 != v->get_nrow()
CellMismatch == ncells2 # Len(vect.rows)

\* std::inner_product(x.begin(), x.end(), y, 0.0)
RECURSIVE DotFrom(_, _, _, _)
DotFrom(acc, x, y, k) ==
    IF k > Len(x) THEN acc ELSE DotFrom(Add(acc, Mul(x[k], y[k])), x, y, k + 1)

Dot(x, y) == DotFrom(Zero, x, y, 1)

\* std::sqrt on the squares of rationals
Sqrt(x) ==
    IF ~IsFinite(x) THEN x
    ELSE Norm(CHOOSE r \in 0..x[1] : r * r = x[1], CHOOSE r \in 1..x[2] : r * r = x[2])

\* faulty variant: the gradient buffer keeps the row of the first cell
GradRow_Stale(v, c) == v.rows[1]

\* v->get_row(cell, grad.begin())
GradRow(v, c) == v.rows[c]

\* l2norm += g*g over grad, then std::sqrt
L2Norm(grad) == Sqrt(Dot(grad, grad))

\* for (auto& g : grad) { g /= l2norm; }
UnitGrad(grad, l2norm) == [k \in 1..Len(grad) |-> Div(grad[k], l2norm)]

\* sq_distance_to_line(ref, grad, point, working)
SqDistanceToLine(ref, grad, point) ==
    LET working == [k \in 1..Len(ref) |-> Sub(ref[k], point[k])]
        scale == Dot(working, grad)
        resid == [k \in 1..Len(ref) |-> Sub(working[k], Mul(scale, grad[k]))]
    IN Dot(resid, resid)

\* std::exp(-dist / s2)
Kernel(dist) == ExpOf(LogKernel(dist), One)

\* faulty variant: the cell itself is counted in totalprob2 only
RECURSIVE SameBatch_NoSelf(_, _, _, _, _)
SameBatch_NoSelf(p, c, grad, curproj, same) ==
    IF same > ncells2 THEN p
    ELSE IF same = c
    THEN SameBatch_NoSelf(<<p[1], Add(p[2], One)>>, c, grad, curproj, same + 1)
    ELSE LET sameproj == Dot(grad, data2.cols[same])
             samedist == SqDistanceToLine(data2.cols[c], grad, data2.cols[same])
             sameprob == Kernel(samedist)
         IN SameBatch_NoSelf(<<IF Leq(sameproj, curproj) THEN Add(p[1], sameprob) ELSE p[1],
                               Add(p[2], sameprob)>>, c, grad, curproj, same + 1)

\* the loop over the cells of the same batch; p is <<prob2, totalprob2>>
RECURSIVE SameBatch(_, _, _, _, _)
SameBatch(p, c, grad, curproj, same) ==
    IF same > ncells2 THEN p
    ELSE IF same = c
    THEN SameBatch(<<Add(p[1], One), Add(p[2], One)>>, c, grad, curproj, same + 1)
    ELSE LET sameproj == Dot(grad, data2.cols[same])
             samedist == SqDistanceToLine(data2.cols[c], grad, data2.cols[same])
             sameprob == Kernel(samedist)
         IN SameBatch(<<IF Leq(sameproj, curproj) THEN Add(p[1], sameprob) ELSE p[1],
                        Add(p[2], sameprob)>>, c, grad, curproj, same + 1)

\* prob2 /= totalprob2
Prob2(c, grad, curproj) ==
    LET p == SameBatch(<<Zero, Zero>>, c, grad, curproj, 1) IN Div(p[1], p[2])

\* the coordinates and weights for the reference batch, before sorting
Reference(c, grad) ==
    [other \in 1..ncells1 |->
        <<Dot(grad, data1.cols[other]),
          Kernel(SqDistanceToLine(data2.cols[c], grad, data1.cols[other]))>>]

RECURSIVE TotalProb1(_, _)
TotalProb1(ref, k) == IF k = 0 THEN Zero ELSE Add(TotalProb1(ref, k - 1), ref[k][2])

\* operator< of std::pair<double, double>
PairLt(a, b) == Lt(a[1], b[1]) \/ (~Lt(b[1], a[1]) /\ Lt(a[2], b[2]))

RECURSIVE Insert(_, _)
Insert(sorted, x) ==
    IF sorted = <<>> THEN <<x>>
    ELSE IF PairLt(x, Head(sorted)) THEN <<x>> \o sorted
    ELSE <<Head(sorted)>> \o Insert(Tail(sorted), x)

\* faulty variant: the reference list is walked unsorted
Sort_None(q) == q

\* std::sort(distance1.begin(), distance1.end())
RECURSIVE Sort(_)
Sort(q) == IF q = <<>> THEN <<>> ELSE Insert(Sort(Tail(q)), Head(q))

\* faulty variant: the walk stops only once the running sum exceeds the target
RECURSIVE Walk_Strict(_, _, _, _)
Walk_Strict(distance1, target, cumulative, ref_quan) ==
    IF distance1 = <<>> THEN ref_quan
    ELSE LET val == Head(distance1)
             cum == Add(cumulative, val[2])
         IN IF Lt(target, cum) THEN val[1]
            ELSE Walk_Strict(Tail(distance1), target, cum, ref_quan)

\* for (const auto& val : distance1) { cumulative += val.second; if (cumulative >= target) ... }
RECURSIVE Walk(_, _, _, _)
Walk(distance1, target, cumulative, ref_quan) ==
    IF distance1 = <<>> THEN ref_quan
    ELSE LET val == Head(distance1)
             cum == Add(cumulative, val[2])
         IN IF Geq(cum, target) THEN val[1]
            ELSE Walk(Tail(distance1), target, cum, ref_quan)

\* ref_quan = R_NaReal; if (ncells1) ref_quan = distance1.back().first; then the walk
RefQuan(distance1, target) ==
    Walk(distance1, target, Zero,
         IF distance1 # <<>> THEN distance1[Len(distance1)][1] ELSE NaN)

\* one iteration of the loop over the query cells
AdjustCell(v, c) ==
    LET raw == GradRow(v, c)
        norm == L2Norm(raw)
        grad == UnitGrad(raw, norm)
        proj == Dot(grad, data2.cols[c])
        p2 == Prob2(c, grad, proj)
        ref == Reference(c, grad)
        tp1 == TotalProb1(ref, Len(ref))
        d1 == Sort(ref)
        tgt == Mul(p2, tp1)
        rq == RefQuan(d1, tgt)
    IN [l2norm |-> norm, grad |-> grad, curproj |-> proj, prob2 |-> p2,
        totalprob1 |-> tp1, distance1 |-> d1, target |-> tgt, ref_quan |-> rq,
        out |-> Div(Sub(rq, proj), norm)]

(***************************************************************************)
(* The calls.                                                              *)
(***************************************************************************)
NoLoc == [l2norm |-> NaN, grad |-> <<>>, curproj |-> NaN, prob2 |-> NaN,
          totalprob1 |-> NaN, distance1 |-> <<>>, target |-> NaN, ref_quan |-> NaN,
          out |-> NaN]
NoMatrix == [nrow |-> 0, cols |-> <<>>]

Locals ==
    /\ averages = <<>> /\ number = <<>> /\ mnncell = {}
    /\ row = 0 /\ todo = <<>> /\ distances2 = <<>>
    /\ output = <<>> /\ totalprob = <<>>
    /\ cell = 0 /\ loc = NoLoc

Rank1(x) == x
Rank2(p) == 10 * (p[1] + 2) + (p[2] + 2)
Rank4(pg) == 100 * Rank2(pg[1]) + Rank2(pg[2])

\* the sequences of length at most n that are sorted by rank
SortedPositions(n) ==
    {q \in SeqsUpTo(Positions, n) : \A k \in 1..(Len(q) - 1) : Rank1(q[k]) <= Rank1(q[k + 1])}
SortedPoints(n) ==
    {q \in SeqsUpTo(Points, n) : \A k \in 1..(Len(q) - 1) : Rank2(q[k]) <= Rank2(q[k + 1])}
SortedQueries(n) ==
    {q \in SeqsUpTo(Points \X Grads, n) : \A k \in 1..(Len(q) - 1) : Rank4(q[k]) <= Rank4(q[k + 1])}

\* Cells are drawn in sorted order: a permutation of the columns of a matrix
\* (with the anchor identifiers, or the gradient rows, permuted alike) permutes
\* the result.  Row r of the correction vectors holds RowValue(r).
InitSmooth ==
    /\ fn = "smooth_gaussian_kernel"
    /\ impl \in {V1, V2}
    /\ pc = "check"
    /\ \E cols \in SortedPositions(MaxCells) :
          data = [nrow |-> 1, cols |-> [c \in 1..Len(cols) |-> <<R(cols[c])>>]]
    /\ data1 = NoMatrix /\ data2 = NoMatrix
    /\ \E n \in 0..MaxPairs :
          /\ index \in [1..n -> 0..(ncells - 1)]
          /\ \E m \in {n - 1, n, n + 1} \cap (0..MaxPairs) :
                vect = [ncol |-> 1, rows |-> [r \in 1..m |-> <<R(RowValue(r))>>]]
    /\ Locals

Matrix(cols) == [nrow |-> 2, cols |-> [c \in 1..Len(cols) |-> <<R(cols[c][1]), R(cols[c][2])>>]]
ZeroMatrix(nrow, ncol) == [nrow |-> nrow, cols |-> Fill(ncol, Fill(nrow, Zero))]

InitAdjust ==
    /\ fn = "adjust_shift_variance"
    /\ impl = V1
    /\ pc = "check"
    /\ index = <<>> /\ data = NoMatrix
    /\ \/ \E c1 \in SortedPoints(MaxRef), q \in SortedQueries(MaxQuery) :
             /\ data1 = Matrix(c1)
             /\ data2 = Matrix([c \in 1..Len(q) |-> q[c][1]])
             /\ vect = [ncol |-> 2, rows |-> Matrix([c \in 1..Len(q) |-> q[c][2]]).cols]
       \/ \E g1, g2, gv \in 1..2, n1 \in 0..MaxRef, n2, nv \in 0..MaxQuery :
             /\ data1 = ZeroMatrix(g1, n1)
             /\ data2 = ZeroMatrix(g2, n2)
             /\ vect = [ncol |-> gv, rows |-> Fill(nv, Fill(gv, Zero))]
    /\ Locals

Init == InitSmooth \/ InitAdjust

\* if (npairs != _index.size()) throw std::runtime_error(...)
CheckIndex ==
    /\ fn = "smooth_gaussian_kernel" /\ pc = "check"
    /\ IF IndexMismatch
       THEN /\ pc' = "error"
            /\ UNCHANGED <<averages, number, mnncell>>
       ELSE /\ pc' = "aggregate"
            /\ averages' = (IF impl = V1 THEN EmptyAgg1 ELSE EmptyAgg2).averages
            /\ number' = (IF impl = V1 THEN EmptyAgg1 ELSE EmptyAgg2).number
            /\ mnncell' = {}
    /\ UNCHANGED <<fn, impl, vect, index, data, data1, data2, row, todo, distances2,
                   output, totalprob, cell, loc>>

Agg == [averages |-> averages, number |-> number, mnncell |-> mnncell]
Acc == [output |-> output, totalprob |-> totalprob, distances2 |-> distances2]

\* one row of the correction vectors
Aggregate ==
    /\ fn = "smooth_gaussian_kernel" /\ pc = "aggregate" /\ row < npairs
    /\ LET a == AggregateRow(impl, Agg, index[row + 1], vect.rows[row + 1])
       IN /\ averages' = a.averages
          /\ number' = a.number
          /\ mnncell' = a.mnncell
    /\ row' = row + 1
    /\ UNCHANGED <<fn, impl, pc, vect, index, data, data1, data2, todo, distances2,
                   output, totalprob, cell, loc>>

\* sums to means, then the output constructs are set up
Divide ==
    /\ fn = "smooth_gaussian_kernel" /\ pc = "aggregate" /\ row = npairs
    /\ averages' = DivideAll(Agg).averages
    /\ todo' = SortedSeq(mnncell)
    /\ output' = EmptyAcc.output
    /\ totalprob' = EmptyAcc.totalprob
    /\ distances2' = EmptyAcc.distances2
    /\ pc' = "smooth"
    /\ UNCHANGED <<fn, impl, vect, index, data, data1, data2, number, mnncell, row,
                   cell, loc>>

\* one MNN cell of the outer loop
SmoothAnchor ==
    /\ fn = "smooth_gaussian_kernel" /\ pc = "smooth" /\ todo # <<>>
    /\ LET acc == AnchorStep(impl, averages, mnncell, Acc, Head(todo))
       IN /\ output' = acc.output
          /\ totalprob' = acc.totalprob
          /\ distances2' = acc.distances2
    /\ todo' = Tail(todo)
    /\ UNCHANGED <<fn, impl, pc, vect, index, data, data1, data2, averages, number,
                   mnncell, row, cell, loc>>

\* dividing by the total probability, return output
DivideTotal ==
    /\ fn = "smooth_gaussian_kernel" /\ pc = "smooth" /\ todo = <<>>
    /\ output' = Normalize(Acc)
    /\ pc' = "done"
    /\ UNCHANGED <<fn, impl, vect, index, data, data1, data2, averages, number, mnncell,
                   row, todo, distances2, totalprob, cell, loc>>

\* the two throws of adjust_shift_variance, then Rcpp::NumericVector output(ncells2)
CheckDims ==
    /\ fn = "adjust_shift_variance" /\ pc = "check"
    /\ IF GeneMismatch \/ CellMismatch
       THEN pc' = "error" /\ UNCHANGED output
       ELSE pc' = "adjust" /\ output' = Fill(ncells2, Zero)
    /\ UNCHANGED <<fn, impl, vect, index, data, data1, data2, averages, number, mnncell,
                   row, todo, distances2, totalprob, cell, loc>>

\* one query cell: output[cell] = (ref_quan - curproj) / l2norm
Adjust ==
    /\ fn = "adjust_shift_variance" /\ pc = "adjust" /\ cell < ncells2
    /\ loc' = AdjustCell(vect, cell + 1)
    /\ output' = [output EXCEPT ![cell + 1] = loc'.out]
    /\ cell' = cell + 1
    /\ UNCHANGED <<fn, impl, pc, vect, index, data, data1, data2, averages, number,
                   mnncell, row, todo, distances2, totalprob>>

\* return(output)
Return ==
    /\ fn = "adjust_shift_variance" /\ pc = "adjust" /\ cell = ncells2
    /\ pc' = "done"
    /\ UNCHANGED <<fn, impl, vect, index, data, data1, data2, averages, number, mnncell,
                   row, todo, distances2, output, totalprob, cell, loc>>

NextSmooth == CheckIndex \/ Aggregate \/ Divide \/ SmoothAnchor \/ DivideTotal
NextAdjust == CheckDims \/ Adjust \/ Return
Next == NextSmooth \/ NextAdjust

SpecSmooth == InitSmooth /\ [][NextSmooth]_vars
SpecAdjust == InitAdjust /\ [][NextAdjust]_vars
Spec == Init /\ [][Next]_vars

(***************************************************************************)
(* Properties.                                                             *)
(***************************************************************************)
Smoothing == fn = "smooth_gaussian_kernel"
Adjusting == fn = "adjust_shift_variance"

RowsOf(i) == {r \in 1..npairs : index[r] = i}

RECURSIVE SumOver(_, _)
SumOver(S, g) ==
    IF S = {} THEN Zero
    ELSE LET r == CHOOSE x \in S : TRUE
         IN Add(vect.rows[r][g], SumOver(S \ {r}, g))

MeanOf(i) == [g \in 1..ngenes |-> Div(SumOver(RowsOf(i), g), R(Cardinality(RowsOf(i))))]

Stored(i) == IF i + 1 <= Len(averages) THEN averages[i + 1] ELSE <<>>

\* C1: once aggregation is over, the present identifiers (mnncell) are exactly the
\* distinct values of the anchor index, each stored vector is the sum of the rows
\* carrying the identifier divided by their number, and an identifier with no row
\* has no vector at all (not a vector of zeros).
C1_AveragesAreMeans ==
    (Smoothing /\ pc \in {"smooth", "done"}) =>
        /\ mnncell = {index[r] : r \in 1..npairs}
        /\ \A i \in mnncell : averages[i + 1] = MeanOf(i)
        /\ \A i \in (0..(ncells - 1)) \ mnncell : Stored(i) = <<>>

C1_Witness ==
    /\ Smoothing /\ pc = "smooth" /\ ncells = 3
    /\ index = <<0, 0, 1>>
    /\ vect.rows = <<<<R(1)>>, <<R(4)>>, <<R(9)>>>>
    /\ mnncell = {0, 1}
    /\ averages[1] = <<<<5, 2>>>> /\ averages[2] = <<R(9)>> /\ Stored(2) = <<>>

BadIndexShape == Len(index) # Len(vect.rows)
BadAdjustShape ==
    \/ data1.nrow # data2.nrow \/ data1.nrow # vect.ncol \/ data2.nrow # vect.ncol
    \/ Len(vect.rows) # Len(data2.cols)

\* C2: a shape inconsistency is detected before any computation: with a mismatch
\* the call never leaves the check except into the error, and in the error state
\* nothing has been computed and there is no output.
C2_ShapeErrorsAreEager ==
    /\ (Smoothing /\ BadIndexShape) => pc \in {"check", "error"}
    /\ (Adjusting /\ BadAdjustShape) => pc \in {"check", "error"}
    /\ pc = "error" =>
          /\ (Smoothing /\ BadIndexShape) \/ (Adjusting /\ BadAdjustShape)
          /\ output = <<>> /\ totalprob = <<>> /\ averages = <<>> /\ mnncell = {}
          /\ row = 0 /\ cell = 0 /\ loc = NoLoc

C2_Witness ==
    /\ Adjusting /\ pc = "error"
    /\ data1.nrow = data2.nrow /\ data1.nrow = vect.ncol
    /\ Len(vect.rows) # Len(data2.cols) /\ ncells2 > 0 /\ output = <<>>

\* C4 (as claimed): a call never completes with a sample whose total accumulated
\* weight is zero; such a call reports an error instead.
C4_ZeroWeightIsAnError ==
    ~(Smoothing /\ pc = "done" /\ \E s \in 1..ncells : totalprob[s] = Zero)

\* C4 (amended): no error is reported for a zero total weight: the call completes
\* and every element of the output column of a sample with zero total weight is NaN.
C4_ZeroWeightGivesNaN ==
    /\ (Smoothing /\ Len(index) = Len(vect.rows)) => pc # "error"
    /\ (Smoothing /\ pc = "done") =>
          \A s \in 1..ncells : \A g \in 1..ngenes :
             totalprob[s] = Zero => IsNaN(output[s][g])

C4_Witness ==
    /\ Smoothing /\ pc = "done" /\ mnncell # {}
    /\ \E s, t \in 1..ncells :
          /\ totalprob[s] = Zero /\ IsNaN(output[s][1])
          /\ totalprob[t] # Zero /\ IsFinite(output[t][1])

\* C5: with exactly one anchor, the output column of every sample with a nonzero
\* kernel weight equals the anchor's mean correction vector, whatever its distance.
C5_SingleAnchor ==
    (Smoothing /\ pc = "done" /\ Cardinality(mnncell) = 1) =>
        \A a \in mnncell : \A s \in 1..ncells :
            totalprob[s] # Zero => output[s] = MeanOf(a)

C5_Witness ==
    /\ Smoothing /\ pc = "done" /\ Cardinality(mnncell) = 1
    /\ \E s \in 1..ncells : \A a \in mnncell :
          /\ data.cols[s] # data.cols[a + 1]
          /\ totalprob[s] = <<1, KernelBase>>
          /\ output[s] = averages[a + 1]

\* C8: the output does not depend on the order in which the outer loop visits the
\* anchors: every permutation of the anchors gives the output the call returns.
C8_OrderIndependent ==
    (Smoothing /\ pc = "done") =>
        \A p \in Perms(mnncell) :
            Normalize(SmoothFrom(impl, averages, mnncell, EmptyAcc, p)) = output

C8_Witness ==
    /\ Smoothing /\ pc = "done" /\ ncells = 3
    /\ mnncell = {0, 1, 2}
    /\ data.cols[1] # data.cols[2] /\ data.cols[2] # data.cols[3]
    /\ \A s \in 1..ncells : IsFinite(output[s][1])
    /\ output[1] # output[2] /\ output[2] # output[3]

\* C9: the two implementations agree on every argument with matching dimensions:
\* the same present anchors, the same means and the same output.
C9_ImplementationsAgree ==
    /\ (Smoothing /\ pc \in {"smooth", "done"}) =>
          /\ mnncell = Averages(V1).mnncell /\ mnncell = Averages(V2).mnncell
          /\ \A i \in mnncell :
                /\ averages[i + 1] = Averages(V1).averages[i + 1]
                /\ averages[i + 1] = Averages(V2).averages[i + 1]
    /\ (Smoothing /\ pc = "done") => (output = Smooth(V1) /\ output = Smooth(V2))

C9_Witness ==
    /\ Smoothing /\ pc = "done" /\ impl = V1 /\ index = <<2, 0, 1>>
    /\ data.cols[1] = data.cols[2] /\ data.cols[2] # data.cols[3]
    /\ output = Smooth(V2)
    /\ \A s \in 1..ncells : IsFinite(output[s][1])
    /\ output[1] # output[3]

(***************************************************************************)
(* Properties of adjust_shift_variance.  After an iteration, loc holds the *)
(* locals of query cell number 'cell'.                                     *)
(***************************************************************************)
Adjusted == Adjusting /\ cell > 0
ZeroGradient(c) == \A k \in 1..vect.ncol : vect.rows[c][k] = Zero

RECURSIVE PrefixSum(_)
PrefixSum(k) == IF k = 0 THEN Zero ELSE Add(PrefixSum(k - 1), loc.distance1[k][2])

\* the positions of the sorted reference list at which the running sum has reached the target
Hits == {k \in 1..ncells1 : Geq(PrefixSum(k), loc.target)}
FirstHit == CHOOSE k \in Hits : \A j \in Hits : k <= j

\* the reference cells as (projection, weight), from the definitions of the two
Projection(x) == Add(Mul(loc.grad[1], x[1]), Mul(loc.grad[2], x[2]))
Occurrences(q, x) == Cardinality({k \in 1..Len(q) : q[k] = x})

\* C3: ref_quan is the projection of the first element of the reference list,
\* sorted ascending by (projection, weight), at which the running sum of the
\* weights reaches prob2 * totalprob1; the last (largest) projection if it never
\* does; NaN if the reference batch is empty.
C3_QuantileMatch ==
    Adjusted =>
        /\ loc.target = Mul(loc.prob2, loc.totalprob1)
        /\ Len(loc.distance1) = ncells1
        /\ \A k \in 1..ncells1 :
              Occurrences(loc.distance1, loc.distance1[k])
                  = Occurrences(Reference(cell, loc.grad), loc.distance1[k])
        /\ \A j, k \in 1..ncells1 : j < k => ~PairLt(loc.distance1[k], loc.distance1[j])
        /\ IF ncells1 = 0 THEN IsNaN(loc.ref_quan)
           ELSE IF Hits # {} THEN loc.ref_quan = loc.distance1[FirstHit][1]
           ELSE /\ loc.ref_quan = loc.distance1[ncells1][1]
                /\ \A k \in 1..ncells1 : ~Lt(loc.ref_quan, loc.distance1[k][1])

C3_Witness ==
    /\ Adjusted /\ ncells1 = 2 /\ ~ZeroGradient(cell)
    /\ Hits # {} /\ FirstHit = 2
    /\ Lt(loc.distance1[1][1], loc.distance1[2][1])
    /\ Lt(loc.target, loc.totalprob1)
    /\ loc.ref_quan = loc.distance1[2][1]

\* the non-zero gradient rows of the width of vect
NonZeroRows ==
    IF vect.ncol = 2 THEN {<<R(g[1]), R(g[2])>> : g \in Grads \ {<<0, 0>>}}
    ELSE {<<R(2)>>}

\* C6: a query cell whose gradient has zero norm gets a NaN scale factor, the call
\* still completes, and every other cell gets the scale factor it would get had
\* the degenerate cell's gradient been non-zero.
C6_ZeroGradientIsLocal ==
    /\ (Adjusting /\ ~BadAdjustShape) => pc # "error"
    /\ (Adjusting /\ pc = "done") =>
          \A c \in 1..ncells2 : ZeroGradient(c) =>
             /\ IsNaN(output[c])
             /\ \A g \in NonZeroRows : \A o \in (1..ncells2) \ {c} :
                   output[o] = AdjustCell([vect EXCEPT !.rows[c] = g], o).out

C6_Witness ==
    /\ Adjusting /\ pc = "done" /\ ncells2 = 2 /\ ncells1 > 0
    /\ ZeroGradient(1) /\ ~ZeroGradient(2)
    /\ IsNaN(output[1]) /\ IsFinite(output[2]) /\ output[2] # Zero

SameCells(p, q) == Len(p) = Len(q) /\ \A k \in 1..Len(p) : Occurrences(p, p[k]) = Occurrences(q, p[k])

\* C7: with identical reference and query populations and prob2 = 1/2 for the query
\* cell, the matched quantile is the cell's own projection and its scale factor is 0.
C7_IdenticalPopulations ==
    (Adjusted /\ SameCells(data1.cols, data2.cols) /\ loc.prob2 = <<1, 2>>) =>
        /\ loc.ref_quan = loc.curproj
        /\ output[cell] = Zero

C7_Witness ==
    /\ Adjusted /\ SameCells(data1.cols, data2.cols) /\ loc.prob2 = <<1, 2>>
    /\ ncells1 = 2 /\ data1.cols[1] # data1.cols[2]
    /\ loc.ref_quan = loc.curproj /\ output[cell] = Zero

\* C10: for a query cell with a non-zero gradient, 0 < prob2 <= 1, so the target
\* prob2 * totalprob1 does not exceed totalprob1, and with a non-empty reference
\* batch ref_quan is the projection of some reference cell.
C10_RankInUnitInterval ==
    (Adjusted /\ ~ZeroGradient(cell)) =>
        /\ Lt(Zero, loc.prob2) /\ Leq(loc.prob2, One)
        /\ Leq(loc.target, loc.totalprob1)
        /\ ncells1 > 0 => \E o \in 1..ncells1 : loc.ref_quan = Projection(data1.cols[o])

C10_Witness ==
    /\ Adjusted /\ ~ZeroGradient(cell) /\ ncells1 > 0 /\ ncells2 = 2
    /\ loc.prob2 = <<2, 3>>
    /\ Lt(loc.target, loc.totalprob1)
    /\ \E o \in 1..ncells1 : loc.ref_quan = Projection(data1.cols[o])

====
